---------------------------- MODULE Spec2Model ----------------------------
(***************************************************************************)
(* PULSE intelligence layer: the raw_signals / insights store, ingestion   *)
(* (DatabaseService.batch_insert) and the signal processing pipeline       *)
(* (SmartQueue, SentimentScorer, SignalProcessor.run) of                    *)
(* backend/signal_processor.py and backend/database_service.py.            *)
(*                                                                         *)
(* Conventions.  A nullable column or a missing dict key is a set of at    *)
(* most one element: {} is NULL / missing, {x} is the value x.  Sentiment  *)
(* scores are counted in tenths: 10 is 1.0, -10 is -1.0, 0 is the neutral  *)
(* fallback 0.0.  A Python dict is a function whose DOMAIN is its key set. *)
(***************************************************************************)
EXTENDS Integers, Sequences, FiniteSets, TLC

VARIABLES
    raw_signals,        \* table raw_signals: id -> row (DOMAIN = ids stored)
    insights,           \* table insights: sequence of inserted rows
    pc,                 \* position of the running call
    dry_run,            \* run(dry_run=...)
    batch_size,         \* run(batch_size=...) / fetch limit
    signals,            \* run: list of fetched signal ids (working copies)
    extracted_entities, \* run: dict signal id -> entities
    sentiment_batch_size, \* SignalProcessor.sentiment_batch_size
    all_scores,         \* score_batch_sentiment: dict id -> score
    i,                  \* score_batch_sentiment: offset of the next sub-batch
    new_insights,       \* run: list returned by synthesize_insights
    last,               \* the last external request: what was sent, what came back
    once,               \* what the first of two computations compared gave
    ret                 \* value returned by the last call

vars == <<raw_signals, insights, pc, dry_run, batch_size, signals,
          extracted_entities, sentiment_batch_size, all_scores, i,
          new_insights, last, once, ret>>

---------------------------------------------------------------------------
(* Bounds of the model *)

MaxSignals == 3
MaxPosts == 2
MaxInsights == 2

SignalIds == 1..MaxSignals

\* An id no stored signal has (a key the classifier may invent).
UnknownId == MaxSignals + 1

\* velocity values of engagement_metrics (the spec's example 5, 1, 3)
Velocities == {1, 3, 5}

Null == {}
Some(x) == {x}
The(s) == CHOOSE x \in s : TRUE

Min(a, b) == IF a <= b THEN a ELSE b

\* The empty Python dict and list
EmptyDict == [k \in {} |-> 0]
EmptyList == <<>>

\* dict.get(key, default)
Get(d, k, default) == IF k \in DOMAIN d THEN d[k] ELSE default

\* d.update(e): keys of e overwrite, other keys of d stay
Update(d, e) ==
    [k \in (DOMAIN d) \cup (DOMAIN e) |-> IF k \in DOMAIN e THEN e[k] ELSE d[k]]

\* The ids of a list of signals, as a set
Ids(list) == {list[k] : k \in 1..Len(list)}

---------------------------------------------------------------------------
(* SmartQueue.fetch_unprocessed_signals *)

\* Mutant: the filter on processed is dropped.
Unprocessed_NoFilter(store) == DOMAIN store

\* WHERE processed = FALSE
Unprocessed(store) == {id \in DOMAIN store : store[id].processed = FALSE}

\* ORDER BY engagement_metrics->velocity DESC, as the request states it: the
\* call order(..., desc=True) names no nulls position, so PostgreSQL's
\* default for DESC applies and a NULL sort key comes before every value.
\* SortsBefore(a, b): row a must come strictly before row b.
SortsBefore(store, a, b) ==
    LET va == store[a].velocity
        vb == store[b].velocity
    IN  \/ va = Null /\ vb # Null
        \/ va # Null /\ vb # Null /\ The(va) > The(vb)

\* Every order of the set S the ORDER BY clause allows (ties in any order).
Orderings(store, S) ==
    {q \in [1..Cardinality(S) -> S] :
        /\ \A m, n \in 1..Cardinality(S) : m # n => q[m] # q[n]
        /\ \A m, n \in 1..Cardinality(S) :
              m < n => ~SortsBefore(store, q[n], q[m])}

\* LIMIT n
Limit(q, n) == SubSeq(q, 1, Min(n, Len(q)))

\* The rows the query of fetch_unprocessed_signals may answer with.
QueryUnprocessed(store, limit) ==
    {Limit(q, limit) : q \in Orderings(store, Unprocessed(store))}

\* Mutant: the rows are handed back although the query raised.
fetch_unprocessed_signals_NoExcept(store, limit, failed) ==
    QueryUnprocessed(store, limit)

\* fetch_unprocessed_signals(limit): response.data, or [] when the store
\* raises (failed = TRUE).
fetch_unprocessed_signals(store, limit, failed) ==
    IF failed THEN {EmptyList} ELSE QueryUnprocessed(store, limit)

---------------------------------------------------------------------------
(* TickerExtractor.  A text is a sequence of one-character strings. *)

Upper == {"N", "V", "T"}
Lower == {"n", "v", "t"}
WordChars == Upper \cup Lower

\* str.lower()
LowerOf(c) ==
    CASE c = "N" -> "n" [] c = "V" -> "v" [] c = "T" -> "t" [] OTHER -> c
ToLower(text) == [k \in 1..Len(text) |-> LowerOf(text[k])]

\* str.title(): a letter that follows no letter is upper case, the others lower
UpperOf(c) ==
    CASE c = "n" -> "N" [] c = "v" -> "V" [] c = "t" -> "T" [] OTHER -> c
TitleCase(text) ==
    [k \in 1..Len(text) |->
        IF k = 1 \/ text[k - 1] \notin WordChars
        THEN UpperOf(text[k]) ELSE LowerOf(text[k])]

\* asset_mapping.json: company name (lower case) -> ticker
asset_mapping == [name \in {<<"n", "v">>} |-> <<"N", "V", "T">>]

\* needle in haystack (substring test on str)
Contains(haystack, needle) ==
    \E p \in 0..(Len(haystack) - Len(needle)) :
        SubSeq(haystack, p + 1, p + Len(needle)) = needle

\* End of the longest run of upper-case letters that starts at position p
\* (p - 1 when text[p] is no upper-case letter).
RECURSIVE RunEnd(_, _)
RunEnd(text, p) ==
    IF p <= Len(text) /\ text[p] \in Upper THEN RunEnd(text, p + 1) ELSE p - 1

MaxTickerLen == 5

\* Mutant: the pattern without its closing \b: after a '$', the first one
\* to five upper-case letters, whatever follows them.
extract_regex_tickers_NoBoundary(content) ==
    {SubSeq(content, p + 1, Min(RunEnd(content, p + 1), p + MaxTickerLen)) :
        p \in {q \in 1..Len(content) :
                 content[q] = "$" /\ RunEnd(content, q + 1) > q}}

\* re.compile(r'\$([A-Z]{1,5})\b').findall(content), as a set: after a '$',
\* one to five upper-case letters that end at a word boundary.
extract_regex_tickers(content) ==
    {SubSeq(content, p + 1, RunEnd(content, p + 1)) :
        p \in {q \in 1..Len(content) :
                 /\ content[q] = "$"
                 /\ RunEnd(content, q + 1) - q \in 1..MaxTickerLen
                 /\ \/ RunEnd(content, q + 1) = Len(content)
                    \/ content[RunEnd(content, q + 1) + 1] \notin WordChars}}

\* _extract_dictionary_tickers: every mapped company whose name is a
\* substring of the lower-cased content.
extract_dictionary_tickers(content) ==
    LET found == {name \in DOMAIN asset_mapping : Contains(ToLower(content), name)}
    IN  [tickers   |-> {asset_mapping[name] : name \in found},
         companies |-> {TitleCase(name) : name \in found}]

\* extract_tickers(content)
extract_tickers(content) ==
    [tickers   |-> extract_regex_tickers(content)
                   \cup extract_dictionary_tickers(content).tickers,
     companies |-> extract_dictionary_tickers(content).companies,
     keywords  |-> {}]

\* Title of the post with a given id; the row has no 'body' key (the column
\* is 'content'), so run reads f"{title} {''}".
Title(id) ==
    IF id % 2 = 1 THEN <<"$", "N", "V">> ELSE <<"n", "v", " ", "$", "T", "t">>

Content(id) == Title(id) \o <<" ">>

---------------------------------------------------------------------------
(* SentimentScorer *)

\* Scores a classifier may put in its JSON answer: 0.7 and 1.5.
ScoreValues == {7, 15}

\* The neutral fallback score 0.0
Neutral == 0

\* What the classification request of one sub-batch may come back with:
\*   raise   the request raises (network, timeout, API error)
\*   text    an answer json.loads rejects
\*   array   a well-formed JSON array of numbers instead of an object
\*   object  a well-formed JSON object key -> number: complete for the
\*           sub-batch, or omitting one of its ids, or carrying one key more
\*           (an id of another sub-batch, or an id no signal has)
ObjectAnswers(batch, input) ==
    LET B == Ids(batch)
        Complete(v) == [id \in B |-> v]
    IN  {Complete(v) : v \in ScoreValues}
        \cup {[id \in B \ {o} |-> 7] : o \in B}
        \cup {[id \in B \cup {e} |-> IF id = e THEN 15 ELSE 7] :
                  e \in (Ids(input) \cup {UnknownId}) \ B}

ClassifierResponses(batch, input) ==
    {[kind |-> "raise"], [kind |-> "text"], [kind |-> "array"]}
    \cup {[kind |-> "object", scores |-> m] : m \in ObjectAnswers(batch, input)}

\* Mutant: the except branch returns an empty dict instead of the neutral
\* scores.
score_batch_NoFallback(batch, r) ==
    CASE r.kind = "object" -> [type |-> "dict", value |-> r.scores]
      [] r.kind = "array"  -> [type |-> "list"]
      [] OTHER -> [type |-> "dict", value |-> EmptyDict]

\* _score_batch(batch) under the response r of the classifier.  The value
\* returned is what json.loads gave, as it is: [type |-> "dict", value |-> d]
\* or [type |-> "list"]; any exception inside the try gives the neutral dict.
score_batch(batch, r) ==
    CASE r.kind = "object" -> [type |-> "dict", value |-> r.scores]
      [] r.kind = "array"  -> [type |-> "list"]
      [] OTHER -> [type |-> "dict", value |-> [id \in Ids(batch) |-> Neutral]]

\* signals[i:i + batch_size] (i is a 0-based offset)
Slice(list, from, size) == SubSeq(list, from + 1, Min(from + size, Len(list)))

---------------------------------------------------------------------------
(* SmartQueue.mark_as_processed *)

\* Mutant: the new score is added to the stored one instead of replacing it.
UpdateRow_Accumulate(store, id, entities, sentiment) ==
    IF id \in DOMAIN store
    THEN [store EXCEPT ![id] = [@ EXCEPT !.processed = TRUE,
                                         !.extracted_entities = Some(entities),
                                         !.sentiment_score =
                                             IF @ = Null THEN Some(sentiment)
                                             ELSE Some(The(@) + sentiment)]]
    ELSE store

\* update({...}).eq('id', id): one row, its three columns together; no row
\* with that id: nothing changes and nothing is raised.
UpdateRow(store, id, entities, sentiment) ==
    IF id \in DOMAIN store
    THEN [store EXCEPT ![id] = [@ EXCEPT !.processed = TRUE,
                                         !.extracted_entities = Some(entities),
                                         !.sentiment_score = Some(sentiment)]]
    ELSE store

\* The for loop of mark_as_processed from position k on; failing is the set
\* of ids whose update request raises.  The try encloses the whole loop: the
\* first raise ends it and the function returns False.
RECURSIVE MarkLoop(_, _, _, _, _, _)
MarkLoop(store, signal_ids, k, entities, scores, failing) ==
    IF k > Len(signal_ids) THEN [store |-> store, ok |-> TRUE]
    ELSE IF signal_ids[k] \in failing THEN [store |-> store, ok |-> FALSE]
    ELSE MarkLoop(UpdateRow(store, signal_ids[k],
                            Get(entities, signal_ids[k], EmptyDict),
                            Get(scores, signal_ids[k], Neutral)),
                  signal_ids, k + 1, entities, scores, failing)

\* Mutant: True is returned whatever happened in the loop.
mark_as_processed_AlwaysTrue(store, signal_ids, entities, scores, failing) ==
    [store |-> MarkLoop(store, signal_ids, 1, entities, scores, failing).store,
     ok |-> TRUE]

mark_as_processed(store, signal_ids, entities, scores, failing) ==
    MarkLoop(store, signal_ids, 1, entities, scores, failing)

---------------------------------------------------------------------------
(* ClaudeSynthesizer.  Confidence is counted in hundredths (85 is 0.85),   *)
(* expires_at in hours after datetime.now().                               *)

HoursImmediate == 24
HoursDeveloping == 168

\* One element of the JSON array the generator answers with; a key that is
\* missing is Null.
RawInsight(theme, confidence, urgency, supporting) ==
    [theme |-> theme, confidence_score |-> confidence, urgency |-> urgency,
     supporting_signal_ids |-> supporting]

\* Mutant: as the comment of the code has it ("7 days for others"), every
\* urgency but 'immediate' expires after seven days.
NormalizeInsight_SevenDaysForOthers(raw) ==
    [theme            |-> The(raw.theme),
     confidence_score |-> The(raw.confidence_score),
     urgency          |-> IF raw.urgency = Null THEN "background"
                          ELSE The(raw.urgency),
     signal_ids       |-> IF raw.supporting_signal_ids = Null THEN EmptyList
                          ELSE The(raw.supporting_signal_ids),
     expires_at       |-> IF raw.urgency = Some("immediate")
                          THEN Some(HoursImmediate)
                          ELSE Some(HoursDeveloping)]

\* The loop body of _parse_synthesis_response for one element that has its
\* 'theme' and 'confidence_score'.
NormalizeInsight(raw) ==
    [theme            |-> The(raw.theme),
     confidence_score |-> The(raw.confidence_score),
     urgency          |-> IF raw.urgency = Null THEN "background"
                          ELSE The(raw.urgency),
     signal_ids       |-> IF raw.supporting_signal_ids = Null THEN EmptyList
                          ELSE The(raw.supporting_signal_ids),
     expires_at       |-> IF raw.urgency = Some("immediate")
                          THEN Some(HoursImmediate)
                          ELSE IF raw.urgency = Some("developing")
                          THEN Some(HoursDeveloping)
                          ELSE Null]

\* Mutant: an element that cannot be normalized is skipped, the others are
\* returned.
parse_synthesis_response_SkipBroken(array) ==
    LET Whole(raw) == raw.theme # Null /\ raw.confidence_score # Null
        kept == SelectSeq(array, Whole)
    IN  [k \in 1..Len(kept) |-> NormalizeInsight(kept[k])]

\* _parse_synthesis_response on a parsed JSON array: insight['theme'] or
\* insight['confidence_score'] of any element raising KeyError empties the
\* whole result.
parse_synthesis_response(array) ==
    IF \E k \in 1..Len(array) :
           array[k].theme = Null \/ array[k].confidence_score = Null
    THEN EmptyList
    ELSE [k \in 1..Len(array) |-> NormalizeInsight(array[k])]

\* synthesize_insights under the response r of the generator.
synthesize_insights(r) ==
    IF r.kind = "array" THEN parse_synthesis_response(r.array) ELSE EmptyList

\* What the generation request may come back with: it raises, its text is
\* no JSON, or it is an array of at most one insight object.
GeneratorResponses(list) ==
    {[kind |-> "raise"], [kind |-> "text"], [kind |-> "array", array |-> <<>>]}
    \cup {[kind |-> "array", array |-> <<raw>>] :
            raw \in {RawInsight(Some("theme"), Some(85), Some("immediate"),
                                Some(EmptyList)),
                     RawInsight(Some("theme"), Some(42), Null, Null),
                     RawInsight(Null, Some(85), Some("developing"), Null)}}

\* Labels an answer may carry as urgency: the three of the prompt and one
\* that is none of them.
Urgencies == {"immediate", "developing", "background", "urgent"}

\* The elements a JSON array of the generator may hold: theme and
\* confidence_score present or missing, any urgency or none, evidence with
\* or without supporting_signal_ids.
RawInsights ==
    {RawInsight(t, c, u, s) :
        t \in {Null, Some("theme")},
        c \in {Null, Some(85)},
        u \in {Null} \cup {Some(x) : x \in Urgencies},
        s \in {Null, Some(EmptyList)}}

\* Every answer of the generator to the request for a list of signals: it
\* raises, its text is no JSON, or it is an array of at most MaxInsights
\* elements.
GeneratorArrays(list) ==
    {[kind |-> "raise"], [kind |-> "text"]}
    \cup UNION {{[kind |-> "array", array |-> a] : a \in [1..n -> RawInsights]} :
                  n \in 0..MaxInsights}

\* The synthesis failed: the request raised, the text did not parse, or an
\* element of the array could not be normalized.
SynthesisFailed(r) ==
    \/ r.kind \in {"raise", "text"}
    \/ /\ r.kind = "array"
       /\ \E k \in 1..Len(r.array) :
              r.array[k].theme = Null \/ r.array[k].confidence_score = Null

---------------------------------------------------------------------------
(* DatabaseService: ingestion *)

\* velocity the scraper computes for the post with a given id
PostVelocity(id) == IF id % 2 = 1 THEN 3 ELSE 5

\* transform_to_db_format for one post
transform_to_db_format(id) ==
    [source_id |-> id, velocity |-> Some(PostVelocity(id)), processed |-> FALSE]

\* upsert(records, on_conflict='source_id'): a new source_id gets a new row
\* (its enrichment columns NULL); for a stored source_id the row is kept and
\* every column the record carries is overwritten (the request does not ask
\* to ignore duplicates), the columns it does not carry keep their values.
Upsert(store, ids) ==
    [id \in (DOMAIN store) \cup ids |->
        IF id \notin ids THEN store[id]
        ELSE IF id \in DOMAIN store
        THEN [store[id] EXCEPT
                 !.velocity = transform_to_db_format(id).velocity,
                 !.processed = transform_to_db_format(id).processed]
        ELSE [velocity           |-> transform_to_db_format(id).velocity,
              processed          |-> transform_to_db_format(id).processed,
              extracted_entities |-> Null,
              sentiment_score    |-> Null]]

\* batch_insert(records): one upsert request for the whole batch; when it
\* raises nothing is written.
batch_insert(store, ids, failed) ==
    IF ids = {} \/ failed THEN store ELSE Upsert(store, ids)

---------------------------------------------------------------------------
(* SignalProcessor.run, step by step *)

\* ids of the posts the scraper may deliver
PostIds == 1..MaxPosts

NoRequest == [op |-> "none"]

\* the dict run returns
Result(list, ents, found) ==
    [processed_count |-> Len(list),
     insights_count  |-> Len(found),
     tickers_count   |-> Cardinality(UNION {ents[id].tickers : id \in DOMAIN ents})]

ZeroResult == [processed_count |-> 0, insights_count |-> 0, tickers_count |-> 0]

\* scraper.run(save_to_db=True): transform_to_db_format, then batch_insert
Ingest ==
    /\ pc = "idle"
    /\ \E ids \in SUBSET PostIds, failed \in BOOLEAN :
           raw_signals' = batch_insert(raw_signals, ids, failed)
    /\ UNCHANGED <<insights, pc, dry_run, batch_size, signals,
                   extracted_entities, sentiment_batch_size, all_scores, i,
                   new_insights, last, once, ret>>

\* processor.run(batch_size, dry_run) is called
StartRun ==
    /\ pc = "idle"
    /\ Len(insights) < MaxInsights
    /\ \E d \in BOOLEAN, n \in 1..MaxPosts :
           dry_run' = d /\ batch_size' = n
    /\ pc' = "fetch"
    /\ ret' = Null
    /\ UNCHANGED <<raw_signals, insights, signals, extracted_entities,
                   sentiment_batch_size, all_scores, i, new_insights, last, once>>

\* Mutant: run does not return on an empty batch.
AfterFetch_NoShortCircuit(q) == "extract"

\* if not signals: return {'processed_count': 0, ...}
AfterFetch(q) == IF q = EmptyList THEN "done" ELSE "extract"

\* Step 1: fetch_unprocessed_signals; no signals: return the zero counts
Fetch ==
    /\ pc = "fetch"
    /\ \E failed \in BOOLEAN :
         \E q \in fetch_unprocessed_signals(raw_signals, batch_size, failed) :
           /\ signals' = q
           /\ last' = [op |-> "fetch", failed |-> failed]
           /\ pc' = AfterFetch(q)
           /\ ret' = IF q = EmptyList THEN Some(ZeroResult) ELSE ret
    /\ UNCHANGED <<raw_signals, insights, dry_run, batch_size,
                   extracted_entities, sentiment_batch_size, all_scores, i,
                   new_insights, once>>

\* Step 2: extract_tickers over every fetched signal
Extract ==
    /\ pc = "extract"
    /\ extracted_entities' = [id \in Ids(signals) |-> extract_tickers(Content(id))]
    /\ all_scores' = EmptyDict
    /\ i' = 0
    /\ pc' = "score"
    /\ UNCHANGED <<raw_signals, insights, dry_run, batch_size, signals,
                   sentiment_batch_size, new_insights, last, once, ret>>

\* The answers the pipeline runs are checked against: the request raises,
\* a JSON array, a complete object, an object that omits an id.
SampledResponses(batch, input) ==
    {r \in ClassifierResponses(batch, input) :
        \/ r.kind \in {"raise", "array"}
        \/ r.kind = "object" /\ DOMAIN r.scores \subseteq Ids(batch)}

\* Step 3, one turn of the loop of score_batch_sentiment: one request for
\* signals[i:i + batch_size], then all_scores.update(batch_scores), which
\* raises TypeError when _score_batch handed back a list.  The classifier
\* answers with any of ClassifierResponses, or (sampled) with one of
\* SampledResponses.
ScoreTurn(sampled) ==
    /\ pc = "score"
    /\ i < Len(signals)
    /\ \E r \in IF sampled
              THEN SampledResponses(Slice(signals, i, sentiment_batch_size), signals)
              ELSE ClassifierResponses(Slice(signals, i, sentiment_batch_size), signals) :
         LET batch == Slice(signals, i, sentiment_batch_size)
             batch_scores == score_batch(batch, r)
         IN  /\ last' = [op |-> "classify", batch |-> batch, response |-> r]
             /\ IF batch_scores.type = "dict"
                THEN /\ all_scores' = Update(all_scores, batch_scores.value)
                     /\ i' = i + sentiment_batch_size
                     /\ pc' = "score"
                ELSE /\ pc' = "failed"
                     /\ UNCHANGED <<all_scores, i>>
    /\ UNCHANGED <<raw_signals, insights, dry_run, batch_size, signals,
                   extracted_entities, sentiment_batch_size, new_insights,
                   once, ret>>

ScoreBatch == ScoreTurn(TRUE)

\* score_batch_sentiment returns all_scores
ScoreReturn ==
    /\ pc = "score"
    /\ i >= Len(signals)
    /\ pc' = "synthesize"
    /\ UNCHANGED <<raw_signals, insights, dry_run, batch_size, signals,
                   extracted_entities, sentiment_batch_size, all_scores, i,
                   new_insights, last, once, ret>>

\* Mutant: a signal the score map has no entry for is given to the
\* synthesizer without a score that counts as neutral.
AttachEnrichment_NoDefault(list, entities, scores) ==
    [id \in Ids(list) |->
        [extracted_entities |-> Get(entities, id, EmptyDict),
         sentiment_score    |-> Get(scores, id, Neutral - 1)]]

\* "Update signals with extracted data": the working copy of every fetched
\* signal gets, by its id, its entities and its score; the copies are what
\* synthesize_insights is given.
AttachEnrichment(list, entities, scores) ==
    [id \in Ids(list) |->
        [extracted_entities |-> Get(entities, id, EmptyDict),
         sentiment_score    |-> Get(scores, id, Neutral)]]

\* Mutant: the database writes are made in a dry run too.
AfterSynthesize_IgnoreDryRun(dry, found) == "mark"

\* Mutant: a run whose synthesis gave no insight returns without committing.
AfterSynthesize_SkipWithoutInsights(dry, found) ==
    IF dry \/ found = EmptyList THEN "done" ELSE "mark"

\* Mutant: the insights are inserted before the signals are updated.
AfterSynthesize_InsertFirst(dry, found) == IF dry THEN "done" ELSE "insert"

\* if not dry_run: steps 5 and 6, else return
AfterSynthesize(dry, found) == IF dry THEN "done" ELSE "mark"

\* Step 4: synthesize_insights; a dry run returns after it.  The generator
\* answers with any of GeneratorArrays, or (sampled) with one of
\* GeneratorResponses.
SynthesizeTurn(sampled) ==
    /\ pc = "synthesize"
    /\ \E r \in IF sampled THEN GeneratorResponses(signals) ELSE GeneratorArrays(signals) :
           /\ new_insights' = synthesize_insights(r)
           /\ last' = [op |-> "generate", response |-> r,
                       given |-> AttachEnrichment(signals, extracted_entities,
                                                  all_scores)]
           /\ ret' = IF dry_run
                     THEN Some(Result(signals, extracted_entities,
                                      synthesize_insights(r)))
                     ELSE ret
           /\ pc' = AfterSynthesize(dry_run, synthesize_insights(r))
    /\ UNCHANGED <<raw_signals, insights, dry_run, batch_size, signals,
                   extracted_entities, sentiment_batch_size, all_scores, i, once>>

Synthesize == SynthesizeTurn(TRUE)

\* Step 5: mark_as_processed; run does not look at what it returns
Mark ==
    /\ pc = "mark"
    /\ \E failing \in SUBSET Ids(signals) :
         LET m == mark_as_processed(raw_signals, signals, extracted_entities,
                                    all_scores, failing)
         IN  /\ raw_signals' = m.store
             /\ last' = [op |-> "mark", failing |-> failing, returned |-> m.ok,
                          synthesis_failed |->
                              last.op = "generate" /\ SynthesisFailed(last.response)]
    /\ pc' = "insert"
    /\ UNCHANGED <<insights, dry_run, batch_size, signals, extracted_entities,
                   sentiment_batch_size, all_scores, i, new_insights, once, ret>>

\* Mutant: an upsert on theme: an insight whose theme is stored replaces
\* that row instead of being added.
InsertRows_UpsertOnTheme(table, rows) ==
    LET Fresh(row) == \A k \in 1..Len(table) : table[k].theme # row.theme
    IN  table \o SelectSeq(rows, Fresh)

\* table('insights').insert(insights): every row of the list is added
InsertRows(table, rows) == table \o rows

\* Step 6: insert the insights, if any, in one request; when it raises run
\* re-raises
Insert ==
    /\ pc = "insert"
    /\ \E failed \in BOOLEAN :
         IF new_insights = EmptyList
         THEN /\ failed = FALSE
              /\ pc' = "done"
              /\ ret' = Some(Result(signals, extracted_entities, new_insights))
              /\ UNCHANGED insights
         ELSE IF failed
         THEN /\ pc' = "failed"
              /\ UNCHANGED <<insights, ret>>
         ELSE /\ insights' = InsertRows(insights, new_insights)
              /\ pc' = "done"
              /\ ret' = Some(Result(signals, extracted_entities, new_insights))
    /\ UNCHANGED <<raw_signals, dry_run, batch_size, signals,
                   extracted_entities, sentiment_batch_size, all_scores, i,
                   new_insights, last, once>>

\* run has returned or raised; the process ends and the next cron cycle
\* starts from a fresh SignalProcessor
Finish ==
    /\ pc \in {"done", "failed"}
    /\ pc' = "idle"
    /\ dry_run' = FALSE
    /\ batch_size' = 0
    /\ signals' = EmptyList
    /\ extracted_entities' = EmptyDict
    /\ all_scores' = EmptyDict
    /\ i' = 0
    /\ new_insights' = EmptyList
    /\ last' = NoRequest
    /\ ret' = Null
    /\ UNCHANGED <<raw_signals, insights, sentiment_batch_size, once>>

\* SENTIMENT_BATCH_SIZE of the configuration: below the largest batch a run
\* fetches, as the defaults are (15 and 30), so that a run may need more
\* than one classification request.
SentimentBatchSizes == {MaxPosts - 1}

Init ==
    /\ raw_signals = EmptyDict
    /\ insights = EmptyList
    /\ pc = "idle"
    /\ dry_run = FALSE
    /\ batch_size = 0
    /\ signals = EmptyList
    /\ extracted_entities = EmptyDict
    /\ sentiment_batch_size \in SentimentBatchSizes
    /\ all_scores = EmptyDict
    /\ i = 0
    /\ new_insights = EmptyList
    /\ last = NoRequest
    /\ once = Null
    /\ ret = Null

Next ==
    \/ Ingest
    \/ StartRun
    \/ Fetch
    \/ Extract
    \/ ScoreBatch
    \/ ScoreReturn
    \/ Synthesize
    \/ Mark
    \/ Insert
    \/ Finish

Spec == Init /\ [][Next]_vars

---------------------------------------------------------------------------
(* fetch_unprocessed_signals on every table of at most MaxSignals rows *)

\* The rows the table may hold for one id: any velocity or none; never
\* enriched, or enriched and processed.
StoredRows(id) ==
    {[velocity |-> v, processed |-> p,
      extracted_entities |-> IF p THEN Some(extract_tickers(Content(id))) ELSE Null,
      sentiment_score    |-> IF p THEN Some(Neutral) ELSE Null] :
        v \in {Null} \cup {Some(x) : x \in Velocities}, p \in BOOLEAN}

\* Every table of rows with ids in SignalIds, the row of id taken from rows[id]
Tables(rows) ==
    UNION {{t \in [D -> UNION {rows[id] : id \in D}] :
               \A id \in D : t[id] \in rows[id]} : D \in SUBSET SignalIds}

InitFetch ==
    /\ raw_signals \in Tables([id \in SignalIds |-> StoredRows(id)])
    /\ insights = EmptyList
    /\ pc = "fetch"
    /\ dry_run = FALSE
    /\ batch_size \in 0..MaxSignals
    /\ signals = EmptyList
    /\ extracted_entities = EmptyDict
    /\ sentiment_batch_size = 1
    /\ all_scores = EmptyDict
    /\ i = 0
    /\ new_insights = EmptyList
    /\ last = NoRequest
    /\ once = Null
    /\ ret = Null

NextFetch == Fetch

SpecFetch == InitFetch /\ [][NextFetch]_vars

---------------------------------------------------------------------------
(* score_batch_sentiment on every list of at most MaxSignals signals, every *)
(* batch_size and every answer of the classifier                            *)

ScoreBatchAny == ScoreTurn(FALSE)

InitScore ==
    /\ raw_signals = EmptyDict
    /\ insights = EmptyList
    /\ pc = "score"
    /\ dry_run = FALSE
    /\ batch_size = 0
    /\ \E n \in 0..MaxSignals : signals = [k \in 1..n |-> k]
    /\ extracted_entities = EmptyDict
    /\ sentiment_batch_size \in 1..MaxSignals
    /\ all_scores = EmptyDict
    /\ i = 0
    /\ new_insights = EmptyList
    /\ last = NoRequest
    /\ once = Null
    /\ ret = Null

NextScore ==
    \/ ScoreBatchAny
    \/ ScoreReturn

SpecScore == InitScore /\ [][NextScore]_vars

---------------------------------------------------------------------------
(* mark_as_processed, called once and then once more with the same          *)
(* arguments, on every table, id list and failing set                       *)

\* Rows before a commit: not yet processed, or processed by an earlier run.
RowsToMark(id) ==
    {[velocity |-> Some(1), processed |-> FALSE,
      extracted_entities |-> Null, sentiment_score |-> Null],
     [velocity |-> Some(1), processed |-> TRUE,
      extracted_entities |-> Some(EmptyDict), sentiment_score |-> Some(15)]}

\* Lists of distinct ids
IdLists ==
    UNION {{q \in [1..n -> SignalIds] :
               \A a, b \in 1..n : a # b => q[a] # q[b]} : n \in 0..MaxSignals}

InitMark ==
    /\ raw_signals \in Tables([id \in SignalIds |-> RowsToMark(id)])
    /\ insights = EmptyList
    /\ pc = "mark"
    /\ dry_run = FALSE
    /\ batch_size = 0
    /\ signals \in IdLists
    /\ extracted_entities \in
           {EmptyDict, [id \in Ids(signals) |-> extract_tickers(Content(id))]}
    /\ sentiment_batch_size = 1
    /\ all_scores \in {EmptyDict, [id \in Ids(signals) |-> 7]}
    /\ i = 0
    /\ new_insights = EmptyList
    /\ last = NoRequest
    /\ once = Null
    /\ ret = Null

\* The same call again: same arguments, same rows refusing their update
MarkAgain ==
    /\ pc = "insert"
    /\ last.op = "mark"
    /\ once = Null
    /\ once' = Some(raw_signals)
    /\ raw_signals' = mark_as_processed(raw_signals, signals, extracted_entities,
                                        all_scores, last.failing).store
    /\ UNCHANGED <<insights, pc, dry_run, batch_size, signals,
                   extracted_entities, sentiment_batch_size, all_scores, i,
                   new_insights, last, ret>>

NextMark ==
    \/ Mark
    \/ MarkAgain

SpecMark == InitMark /\ [][NextMark]_vars

---------------------------------------------------------------------------
(* synthesize_insights on every answer of the generator, in a dry and in a  *)
(* live run over one fetched signal                                         *)

SynthesizeAny == SynthesizeTurn(FALSE)

InitSynth ==
    /\ raw_signals = [id \in {1} |-> [velocity |-> Some(PostVelocity(id)),
                                      processed |-> FALSE,
                                      extracted_entities |-> Null,
                                      sentiment_score |-> Null]]
    /\ insights = EmptyList
    /\ pc = "synthesize"
    /\ dry_run \in BOOLEAN
    /\ batch_size = 1
    /\ signals = <<1>>
    /\ extracted_entities = [id \in {1} |-> extract_tickers(Content(id))]
    /\ sentiment_batch_size = 1
    /\ all_scores = [id \in {1} |-> 7]
    /\ i = 1
    /\ new_insights = EmptyList
    /\ last = NoRequest
    /\ once = Null
    /\ ret = Null

NextSynth == SynthesizeAny

SpecSynth == InitSynth /\ [][NextSynth]_vars

---------------------------------------------------------------------------
(* batch_insert on the table kept as the list of its rows, each with its    *)
(* source_id, so that two rows of one source_id can be told apart; the      *)
(* records of a request are given by their source_ids                       *)

\* The row a record becomes when its source_id is new
NewRow(s) ==
    [source_id          |-> transform_to_db_format(s).source_id,
     velocity           |-> transform_to_db_format(s).velocity,
     processed          |-> transform_to_db_format(s).processed,
     extracted_entities |-> Null,
     sentiment_score    |-> Null]

\* Mutant: a plain insert, no conflict target.
UpsertRecord_PlainInsert(rows, s) == Append(rows, NewRow(s))

\* upsert(..., on_conflict='source_id') for one record: the row of that
\* source_id is updated with the record's columns, or a new row is added.
UpsertRecord(rows, s) ==
    IF \E k \in 1..Len(rows) : rows[k].source_id = s
    THEN [k \in 1..Len(rows) |->
             IF rows[k].source_id = s
             THEN [rows[k] EXCEPT
                      !.velocity = transform_to_db_format(s).velocity,
                      !.processed = transform_to_db_format(s).processed]
             ELSE rows[k]]
    ELSE Append(rows, NewRow(s))

RECURSIVE UpsertRecords(_, _, _)
UpsertRecords(rows, records, k) ==
    IF k > Len(records) THEN rows
    ELSE UpsertRecords(UpsertRecord(rows, records[k]), records, k + 1)

\* Two records of one request have the same source_id: the statement would
\* update one row twice, which the store rejects as an error.
Repeats(records) ==
    \E a, b \in 1..Len(records) : a # b /\ records[a] = records[b]

\* batch_insert(records): nothing to do for an empty list, else one upsert
\* request; when it raises, nothing is written and the error is returned
\* in the result.
batch_insert_rows(rows, records, failed) ==
    IF records = EmptyList \/ failed \/ Repeats(records) THEN rows
    ELSE UpsertRecords(rows, records, 1)

\* The lists of records of one request
RecordLists == UNION {[1..n -> SignalIds] : n \in 0..MaxPosts}

\* One call of batch_insert
InsertBatch ==
    /\ pc = "idle"
    /\ Len(raw_signals) <= MaxSignals
    /\ \E records \in RecordLists, failed \in BOOLEAN :
           /\ raw_signals' = batch_insert_rows(raw_signals, records, failed)
           /\ last' = [op |-> "upsert", records |-> records, failed |-> failed,
                       stored |-> {raw_signals[k].source_id :
                                      k \in 1..Len(raw_signals)}]
    /\ UNCHANGED <<insights, pc, dry_run, batch_size, signals,
                   extracted_entities, sentiment_batch_size, all_scores, i,
                   new_insights, once, ret>>

InitInsert ==
    /\ raw_signals = EmptyList
    /\ insights = EmptyList
    /\ pc = "idle"
    /\ dry_run = FALSE
    /\ batch_size = 0
    /\ signals = EmptyList
    /\ extracted_entities = EmptyDict
    /\ sentiment_batch_size = 1
    /\ all_scores = EmptyDict
    /\ i = 0
    /\ new_insights = EmptyList
    /\ last = NoRequest
    /\ once = Null
    /\ ret = Null

NextInsert == InsertBatch

SpecInsert == InitInsert /\ [][NextInsert]_vars

---------------------------------------------------------------------------
(* score_batch_sentiment with the outcome of every sub-batch fixed, the     *)
(* sub-batches processed in input order and in any other order              *)

\* The sub-batches of a list: signals[i:i + b] for i in range(0, n, b)
SubBatches(list, b) ==
    [k \in 1..((Len(list) + b - 1) \div b) |-> Slice(list, (k - 1) * b, b)]

\* One answer per sub-batch, each an answer _score_batch returns a dict for
Outcomes(list, b) ==
    LET batches == SubBatches(list, b)
        Answers(k) == {r \in ClassifierResponses(batches[k], list) :
                          r.kind # "array"}
    IN  {o \in [DOMAIN batches -> UNION {Answers(k) : k \in DOMAIN batches}] :
            \A k \in DOMAIN batches : o[k] \in Answers(k)}

\* The orders the sub-batches 1..m can be processed in
Orders(m) == {q \in [1..m -> 1..m] : \A a, b \in 1..m : a # b => q[a] # q[b]}

\* all_scores after all_scores.update(_score_batch(batch)) has been done
\* for the sub-batches order[k], order[k + 1], ...
RECURSIVE ScoreInOrder(_, _, _, _, _)
ScoreInOrder(scores, batches, outcomes, order, k) ==
    IF k > Len(order) THEN scores
    ELSE ScoreInOrder(
             Update(scores, score_batch(batches[order[k]],
                                        outcomes[order[k]]).value),
             batches, outcomes, order, k + 1)

\* The loop of score_batch_sentiment run over the sub-batches in the order
\* of the request; once keeps the map the input order gives.
ScoreReordered ==
    /\ pc = "score"
    /\ last.op = "outcomes"
    /\ LET batches == SubBatches(signals, sentiment_batch_size)
       IN  /\ all_scores' = ScoreInOrder(EmptyDict, batches, last.outcomes,
                                         last.order, 1)
           /\ once' = Some(ScoreInOrder(EmptyDict, batches, last.outcomes,
                                        [k \in DOMAIN batches |-> k], 1))
    /\ i' = Len(signals)
    /\ pc' = "synthesize"
    /\ UNCHANGED <<raw_signals, insights, dry_run, batch_size, signals,
                   extracted_entities, sentiment_batch_size, new_insights,
                   last, ret>>

InitOrder ==
    /\ raw_signals = EmptyDict
    /\ insights = EmptyList
    /\ pc = "score"
    /\ dry_run = FALSE
    /\ batch_size = 0
    /\ \E n \in 0..MaxSignals : signals = [k \in 1..n |-> k]
    /\ extracted_entities = EmptyDict
    /\ sentiment_batch_size \in 1..MaxSignals
    /\ all_scores = EmptyDict
    /\ i = 0
    /\ new_insights = EmptyList
    /\ \E o \in Outcomes(signals, sentiment_batch_size) :
           \E q \in Orders(Len(SubBatches(signals, sentiment_batch_size))) :
               last = [op |-> "outcomes", outcomes |-> o, order |-> q]
    /\ once = Null
    /\ ret = Null

NextOrder == ScoreReordered

SpecOrder == InitOrder /\ [][NextOrder]_vars

---------------------------------------------------------------------------
(* Live runs one after the other over the rows an ingestion left, with no   *)
(* further ingestion and a store that answers every request; the next run   *)
(* is always started (the cron schedule), so some step is always taken      *)

\* processor.run(batch_size, dry_run=False)
StartLiveRun == StartRun /\ dry_run' = FALSE

\* the query of the fetch is answered
FetchAnswered == Fetch /\ last'.failed = FALSE

\* every update request of mark_as_processed is answered
MarkAnswered == Mark /\ last'.failing = {}

\* the insert request is answered
InsertAnswered == Insert /\ pc' = "done"

InitDrain ==
    /\ \E ids \in SUBSET PostIds : raw_signals = batch_insert(EmptyDict, ids, FALSE)
    /\ insights = EmptyList
    /\ pc = "idle"
    /\ dry_run = FALSE
    /\ batch_size = 0
    /\ signals = EmptyList
    /\ extracted_entities = EmptyDict
    /\ sentiment_batch_size \in SentimentBatchSizes
    /\ all_scores = EmptyDict
    /\ i = 0
    /\ new_insights = EmptyList
    /\ last = NoRequest
    /\ once = Null
    /\ ret = Null

NextDrain ==
    \/ StartLiveRun
    \/ FetchAnswered
    \/ Extract
    \/ ScoreBatch
    \/ ScoreReturn
    \/ Synthesize
    \/ MarkAnswered
    \/ InsertAnswered
    \/ Finish

SpecDrain == InitDrain /\ [][NextDrain]_vars /\ WF_vars(NextDrain)

---------------------------------------------------------------------------
(* Two live runs against one store, each a process of its own, their store  *)
(* requests interleaved in any way.  The variables of a run (pc, signals,   *)
(* batch_size, extracted_entities, all_scores, i, new_insights, ret) are    *)
(* here functions of the run; i counts the update requests the run made.    *)

RunIds == {1, 2}

\* Mutant: the fetch claims the rows it returns (they leave the queue at
\* once).
FetchLeaves_Claimed(store, fetched) ==
    [id \in DOMAIN store |->
        IF id \in Ids(fetched) THEN [store[id] EXCEPT !.processed = TRUE]
        ELSE store[id]]

\* The store after the query of fetch_unprocessed_signals: a select, which
\* writes nothing and locks nothing.
FetchLeaves(store, fetched) == store

\* run p: step 1
RaceFetch(p) ==
    /\ pc[p] = "fetch"
    /\ \E q \in fetch_unprocessed_signals(raw_signals, batch_size[p], FALSE) :
           /\ signals' = [signals EXCEPT ![p] = q]
           /\ raw_signals' = FetchLeaves(raw_signals, q)
           /\ pc' = [pc EXCEPT ![p] = AfterFetch(q)]
           /\ ret' = [ret EXCEPT ![p] = IF q = EmptyList THEN Some(ZeroResult)
                                        ELSE Null]
    /\ last' = [op |-> "fetch", run |-> p,
                unprocessed |-> Unprocessed(raw_signals)]
    /\ UNCHANGED <<insights, dry_run, batch_size, extracted_entities,
                   sentiment_batch_size, all_scores, i, new_insights, once>>

\* run p: steps 2 to 4, which use no store request: extraction, scoring
\* (every signal scored alike) and a synthesis that returns one insight
\* supported by the signals of the run
RaceEnrich(p) ==
    /\ pc[p] = "extract"
    /\ extracted_entities' =
           [extracted_entities EXCEPT
               ![p] = [id \in Ids(signals[p]) |-> extract_tickers(Content(id))]]
    /\ \E v \in ScoreValues :
           all_scores' =
               [all_scores EXCEPT
                   ![p] = score_batch(signals[p],
                                      [kind |-> "object",
                                       scores |-> [id \in Ids(signals[p]) |-> v]]).value]
    /\ new_insights' =
           [new_insights EXCEPT
               ![p] = synthesize_insights(
                          [kind |-> "array",
                           array |-> <<RawInsight(Some("theme"), Some(85),
                                                  Some("immediate"),
                                                  Some(signals[p]))>>])]
    /\ pc' = [pc EXCEPT ![p] = AfterSynthesize(dry_run, new_insights'[p])]
    /\ last' = [op |-> "generate", run |-> p]
    /\ UNCHANGED <<raw_signals, insights, dry_run, batch_size, signals,
                   sentiment_batch_size, i, once, ret>>

\* run p: step 5, one update request of the loop of mark_as_processed
RaceUpdate(p) ==
    /\ pc[p] = "mark"
    /\ i[p] < Len(signals[p])
    /\ LET id == signals[p][i[p] + 1]
       IN  /\ raw_signals' = UpdateRow(raw_signals, id,
                                       Get(extracted_entities[p], id, EmptyDict),
                                       Get(all_scores[p], id, Neutral))
           /\ last' = [op |-> "update", run |-> p, id |-> id,
                       was_processed |-> raw_signals[id].processed]
    /\ i' = [i EXCEPT ![p] = @ + 1]
    /\ UNCHANGED <<insights, pc, dry_run, batch_size, signals,
                   extracted_entities, sentiment_batch_size, all_scores,
                   new_insights, once, ret>>

\* run p: mark_as_processed returns
RaceMarked(p) ==
    /\ pc[p] = "mark"
    /\ i[p] = Len(signals[p])
    /\ pc' = [pc EXCEPT ![p] = "insert"]
    /\ UNCHANGED <<raw_signals, insights, dry_run, batch_size, signals,
                   extracted_entities, sentiment_batch_size, all_scores, i,
                   new_insights, last, once, ret>>

\* run p: step 6 and the return
RaceInsert(p) ==
    /\ pc[p] = "insert"
    /\ insights' = IF new_insights[p] = EmptyList THEN insights
                   ELSE InsertRows(insights, new_insights[p])
    /\ pc' = [pc EXCEPT ![p] = "done"]
    /\ ret' = [ret EXCEPT ![p] = Some(Result(signals[p], extracted_entities[p],
                                             new_insights[p]))]
    /\ last' = [op |-> "insert", run |-> p]
    /\ UNCHANGED <<raw_signals, dry_run, batch_size, signals,
                   extracted_entities, sentiment_batch_size, all_scores, i,
                   new_insights, once>>

InitRace ==
    /\ \E ids \in SUBSET PostIds : raw_signals = batch_insert(EmptyDict, ids, FALSE)
    /\ insights = EmptyList
    /\ pc = [p \in RunIds |-> "fetch"]
    /\ dry_run = FALSE
    /\ batch_size \in [RunIds -> 1..MaxPosts]
    /\ signals = [p \in RunIds |-> EmptyList]
    /\ extracted_entities = [p \in RunIds |-> EmptyDict]
    /\ sentiment_batch_size = 1
    /\ all_scores = [p \in RunIds |-> EmptyDict]
    /\ i = [p \in RunIds |-> 0]
    /\ new_insights = [p \in RunIds |-> EmptyList]
    /\ last = NoRequest
    /\ once = Null
    /\ ret = [p \in RunIds |-> Null]

NextRace ==
    \E p \in RunIds :
        \/ RaceFetch(p)
        \/ RaceEnrich(p)
        \/ RaceUpdate(p)
        \/ RaceMarked(p)
        \/ RaceInsert(p)

SpecRace == InitRace /\ [][NextRace]_vars

---------------------------------------------------------------------------
(* extract_tickers on every text of at most MaxText characters *)

MaxText == 7

\* The characters of the texts: a non-word character, an upper-case letter
\* and a lower-case letter ("Nv" holds the company name of asset_mapping).
TextChars == {"$", "N", "v"}

Texts(n) == UNION {[1..m -> TextChars] : m \in 0..n}

\* extract_tickers on the text of the request
ExtractText ==
    /\ pc = "extract"
    /\ last.op = "text"
    /\ extracted_entities' = [id \in Ids(signals) |-> extract_tickers(last.content)]
    /\ pc' = "score"
    /\ UNCHANGED <<raw_signals, insights, dry_run, batch_size, signals,
                   sentiment_batch_size, all_scores, i, new_insights, last,
                   once, ret>>

InitExtract ==
    /\ raw_signals = EmptyDict
    /\ insights = EmptyList
    /\ pc = "extract"
    /\ dry_run = FALSE
    /\ batch_size = 1
    /\ signals = <<1>>
    /\ extracted_entities = EmptyDict
    /\ sentiment_batch_size = 1
    /\ all_scores = EmptyDict
    /\ i = 0
    /\ new_insights = EmptyList
    /\ \E content \in Texts(MaxText) : last = [op |-> "text", content |-> content]
    /\ once = Null
    /\ ret = Null

NextExtract == ExtractText

SpecExtract == InitExtract /\ [][NextExtract]_vars

---------------------------------------------------------------------------
(* Properties *)

\* Range of a sentiment score, in tenths
ScoreMin == -10
ScoreMax == 10

\* C1: in every reachable state of the store, under ingestion and live or
\* dry runs, a raw signal is processed exactly when its enrichment
\* (extracted_entities, sentiment_score) is set, and the enrichment of a
\* processed signal is not empty.
ProcessedIffEnriched ==
    \A id \in DOMAIN raw_signals :
        /\ raw_signals[id].processed <=> raw_signals[id].extracted_entities # Null
        /\ raw_signals[id].processed <=> raw_signals[id].sentiment_score # Null
        /\ raw_signals[id].processed =>
               DOMAIN The(raw_signals[id].extracted_entities) # {}

\* C2: once fetch_unprocessed_signals has returned, every signal it
\* returned is a row of the table whose processed flag is false, whatever
\* the velocities and the limit.
FetchedAreUnprocessed ==
    last.op = "fetch" =>
        \A k \in 1..Len(signals) :
            /\ signals[k] \in DOMAIN raw_signals
            /\ raw_signals[signals[k]].processed = FALSE

\* C2 witness: a fetch returned signals while a processed row had a higher
\* velocity than each of them.
FetchSkippedFasterProcessed ==
    /\ last.op = "fetch"
    /\ signals # EmptyList
    /\ \A k \in 1..Len(signals) : raw_signals[signals[k]].velocity = Some(1)
    /\ \E id \in DOMAIN raw_signals :
           raw_signals[id].processed /\ raw_signals[id].velocity = Some(5)

\* The order C3 states: higher velocity first, no velocity last.
\* NullsLastBefore(a, b): row a must come strictly before row b.
NullsLastBefore(a, b) ==
    LET va == raw_signals[a].velocity
        vb == raw_signals[b].velocity
    IN  \/ va # Null /\ vb = Null
        \/ va # Null /\ vb # Null /\ The(va) > The(vb)

\* C3: a fetch whose query succeeded returns min(limit, number of
\* unprocessed signals) distinct signals, in non-increasing velocity order
\* with the signals without velocity last, and no unprocessed signal left
\* out would sort before a returned one.
FetchOrderNullsLast ==
    (last.op = "fetch" /\ ~last.failed) =>
        /\ Len(signals) = Min(batch_size, Cardinality(Unprocessed(raw_signals)))
        /\ \A m, n \in 1..Len(signals) : m # n => signals[m] # signals[n]
        /\ \A m, n \in 1..Len(signals) :
               m < n => ~NullsLastBefore(signals[n], signals[m])
        /\ \A u \in Unprocessed(raw_signals) \ Ids(signals) :
               \A k \in 1..Len(signals) : ~NullsLastBefore(u, signals[k])

\* C4: when score_batch_sentiment has returned, the key set of its map is
\* exactly the set of input signal ids.
ScoreKeysAreInputIds ==
    pc = "synthesize" => DOMAIN all_scores = Ids(signals)

\* C5: after a sub-batch whose request raised or whose answer did not
\* parse, nothing was raised (scoring goes on) and every id of that
\* sub-batch has the score 0.0.
FailedBatchIsNeutral ==
    (last.op = "classify" /\ last.response.kind \in {"raise", "text"}) =>
        /\ pc \in {"score", "synthesize"}
        /\ \A id \in Ids(last.batch) :
               id \in DOMAIN all_scores /\ all_scores[id] = Neutral

\* C5 witness: the answer of a sub-batch did not parse, after another
\* sub-batch had been scored 0.7; scoring has gone on to its end.
UnparsableBatchAfterScoredBatch ==
    /\ last.op = "classify"
    /\ last.response.kind = "text"
    /\ pc = "synthesize"
    /\ \E id \in DOMAIN all_scores : all_scores[id] = 7

\* C6: every score in the map of score_batch_sentiment, and every
\* sentiment_score committed to a raw signal, lies in [-1.0, 1.0].
ScoresWithinRange ==
    /\ \A id \in DOMAIN all_scores : all_scores[id] \in ScoreMin..ScoreMax
    /\ \A id \in DOMAIN raw_signals :
           raw_signals[id].sentiment_score # Null =>
               The(raw_signals[id].sentiment_score) \in ScoreMin..ScoreMax

\* C7: the turn of one sub-batch leaves the entries of the ids of every
\* other sub-batch as they were, whatever its request came back with.
SubBatchesIndependent ==
    [][(pc = "score" /\ i < Len(signals)) =>
          \A id \in Ids(signals) \ Ids(Slice(signals, i, sentiment_batch_size)) :
              /\ id \in DOMAIN all_scores' <=> id \in DOMAIN all_scores
              /\ id \in DOMAIN all_scores => all_scores'[id] = all_scores[id]]_vars

\* C8: after mark_as_processed, every id of signal_ids whose own update
\* does not fail, and that has a row, is processed and carries the
\* enrichment passed for it, wherever the failing ids are in the list.
MarkUpdatesEveryHealthyId ==
    last.op = "mark" =>
        \A id \in (Ids(signals) \ last.failing) \cap DOMAIN raw_signals :
            /\ raw_signals[id].processed
            /\ raw_signals[id].extracted_entities =
                   Some(Get(extracted_entities, id, EmptyDict))
            /\ raw_signals[id].sentiment_score =
                   Some(Get(all_scores, id, Neutral))

\* C9: mark_as_processed returns False exactly when the update of some id
\* failed, and when it returns True every id that has a row is processed.
MarkReturnsFalseIffFailed ==
    last.op = "mark" =>
        /\ last.returned <=> (last.failing \cap Ids(signals) = {})
        /\ last.returned =>
               \A id \in Ids(signals) \cap DOMAIN raw_signals :
                   raw_signals[id].processed

\* C9 witness: the update of the second of two ids failed, and False was
\* returned.
MarkFailedOnSecondId ==
    /\ last.op = "mark"
    /\ Len(signals) = 2
    /\ last.failing = {signals[2]}
    /\ last.returned = FALSE

\* C10: the second of two mark_as_processed calls with the same arguments
\* leaves raw_signals as the first call left it.
MarkTwiceIsMarkOnce ==
    once # Null => raw_signals = The(once)

\* C10 witness: both calls were made and the first one had written a new
\* score over a row processed before.
MarkedTwiceOverProcessedRow ==
    /\ once # Null
    /\ last.failing = {}
    /\ all_scores # EmptyDict
    /\ \E id \in Ids(signals) \cap DOMAIN raw_signals :
           raw_signals[id].sentiment_score = Some(7)

\* C11: while a run with dry_run=true is under way and until it has returned
\* or raised, no step changes a row of raw_signals or the insights table,
\* whatever was fetched and whatever scoring and synthesis came back with.
DryRunLeavesStoreUnchanged ==
    [][(pc # "idle" /\ dry_run) =>
          (raw_signals' = raw_signals /\ insights' = insights)]_vars

\* C11 witness: a dry run over a scored batch has returned with an insight
\* it did not insert.
DryRunReturnedInsight ==
    /\ dry_run
    /\ pc = "done"
    /\ new_insights # EmptyList
    /\ DOMAIN all_scores # {}
    /\ \A id \in Ids(signals) : raw_signals[id].processed = FALSE

\* C12: once synthesize_insights has been called, nothing was raised; when
\* the request raised, the text did not parse or any element lacked theme
\* or confidence_score the list returned is empty, and otherwise it has one
\* insight per element of the array, in order, with that element's theme
\* and confidence_score.
SynthesisAllOrNothing ==
    last.op = "generate" =>
        /\ pc \in {"done", "mark"}
        /\ IF \/ last.response.kind # "array"
              \/ \E k \in 1..Len(last.response.array) :
                     \/ last.response.array[k].theme = Null
                     \/ last.response.array[k].confidence_score = Null
           THEN new_insights = EmptyList
           ELSE /\ Len(new_insights) = Len(last.response.array)
                /\ \A k \in 1..Len(new_insights) :
                       /\ Some(new_insights[k].theme) = last.response.array[k].theme
                       /\ Some(new_insights[k].confidence_score) =
                              last.response.array[k].confidence_score

\* C12 witness: the answer was an array of two elements, the first one
\* whole and the second one without confidence_score; nothing was returned.
SecondElementBrokenGaveNothing ==
    /\ last.op = "generate"
    /\ last.response.kind = "array"
    /\ Len(last.response.array) = 2
    /\ last.response.array[1].theme # Null
    /\ last.response.array[1].confidence_score # Null
    /\ last.response.array[2].theme # Null
    /\ last.response.array[2].confidence_score = Null
    /\ new_insights = EmptyList

SynthesisFailureStillCommits ==
    [][(/\ pc \notin {"done", "failed", "idle"}
        /\ pc' \in {"done", "failed"}
        /\ ~dry_run
        /\ signals # EmptyList
        /\ \/ last'.op = "generate" /\ SynthesisFailed(last'.response)
           \/ last'.op = "mark" /\ last'.synthesis_failed) =>
          (/\ pc' = "done"
           /\ last'.op = "mark"
           /\ insights' = insights
           /\ ret' # Null
           /\ The(ret').insights_count = 0
           /\ The(ret').processed_count = Len(signals)
           /\ last'.returned =>
                  \A id \in Ids(signals) :
                      /\ raw_signals'[id].processed
                      /\ raw_signals'[id].extracted_entities =
                             Some(Get(extracted_entities, id, EmptyDict))
                      /\ raw_signals'[id].sentiment_score =
                             Some(Get(all_scores, id, Neutral)))]_vars

\* C13 witness: a live run whose synthesis failed has returned after
\* committing two signals, and the insights table is empty.
RunCommittedAfterFailedSynthesis ==
    /\ pc = "done"
    /\ ~dry_run
    /\ last.op = "mark"
    /\ last.synthesis_failed
    /\ last.returned
    /\ Len(signals) = 2
    /\ \A id \in Ids(signals) : raw_signals[id].processed
    /\ insights = EmptyList
    /\ ret = Some(Result(signals, extracted_entities, EmptyList))

\* Bounds the claim C14 puts on a confidence score, in hundredths
ConfidenceFloor == 50
ConfidenceMax == 100

\* C14: every insight synthesize_insights returned, and every row of the
\* insights table, has a confidence score above 0.5 and at most 1.
InsightsAboveHalf ==
    /\ \A k \in 1..Len(new_insights) :
           /\ new_insights[k].confidence_score > ConfidenceFloor
           /\ new_insights[k].confidence_score <= ConfidenceMax
    /\ \A k \in 1..Len(insights) :
           /\ insights[k].confidence_score > ConfidenceFloor
           /\ insights[k].confidence_score <= ConfidenceMax

\* C16: the fetch step that returns no signal ends the run at once: run
\* returns the three zero counts, nothing is raised and the store is not
\* written; the only step after it is the end of the call, so no
\* classification request, generation request or store write is made.
EmptyFetchShortCircuits ==
    [][/\ (pc = "fetch" /\ signals' = EmptyList) =>
              /\ pc' = "done"
              /\ ret' = Some([processed_count |-> 0, insights_count |-> 0,
                              tickers_count |-> 0])
              /\ raw_signals' = raw_signals
              /\ insights' = insights
       /\ (pc # "idle" /\ pc # "fetch" /\ signals = EmptyList) =>
              /\ pc = "done"
              /\ last.op = "fetch"
              /\ pc' = "idle"
              /\ raw_signals' = raw_signals
              /\ insights' = insights]_vars

\* C16 witness: the query succeeded on a table whose rows are all
\* processed, and the run is done with zero counts.
FetchFoundAllProcessed ==
    /\ pc = "done"
    /\ last.op = "fetch"
    /\ ~last.failed
    /\ signals = EmptyList
    /\ DOMAIN raw_signals # {}
    /\ ret = Some(ZeroResult)

\* C17: the fetch step whose store query raised hands run the empty list:
\* run is done, nothing raised, with the three zero counts, and the step
\* wrote nothing to the store.
FetchErrorGivesZeroCounts ==
    [][(pc = "fetch" /\ last'.op = "fetch" /\ last'.failed) =>
          /\ signals' = EmptyList
          /\ pc' = "done"
          /\ ret' = Some([processed_count |-> 0, insights_count |-> 0,
                          tickers_count |-> 0])
          /\ raw_signals' = raw_signals
          /\ insights' = insights]_vars

\* C17 witness: the query raised while unprocessed signals were waiting,
\* and the run is done with zero counts.
FetchFailedOverWaitingSignals ==
    /\ pc = "done"
    /\ last.op = "fetch"
    /\ last.failed
    /\ Unprocessed(raw_signals) # {}
    /\ ret = Some(ZeroResult)

\* C18: no step removes a raw signal, and no run fetches a signal that
\* carries the enrichment of an earlier commit: every signal a live run
\* fetched has never been committed before.
CommittedAtMostOnce ==
    [][/\ DOMAIN raw_signals \subseteq DOMAIN raw_signals'
       /\ (pc = "fetch" /\ ~dry_run) =>
              \A k \in 1..Len(signals') :
                  /\ raw_signals[signals'[k]].extracted_entities = Null
                  /\ raw_signals[signals'[k]].sentiment_score = Null]_vars

\* C20: a batch_insert leaves every row that was already stored as it was.
InsertLeavesStoredRows ==
    [][(pc = "idle" /\ pc' = "idle") =>
          \A id \in DOMAIN raw_signals : raw_signals'[id] = raw_signals[id]]_vars

\* C19: after any sequence of batch_insert calls, no two rows of
\* raw_signals have the same source_id.
OneRowPerSourceId ==
    \A a, b \in 1..Len(raw_signals) :
        a # b => raw_signals[a].source_id # raw_signals[b].source_id

\* C19 witness: a request of two records whose source_ids were both stored
\* already went through, and the table has as many rows as before.
ResubmittedStoredRecords ==
    /\ last.op = "upsert"
    /\ ~last.failed
    /\ Len(last.records) = 2
    /\ last.records[1] # last.records[2]
    /\ {last.records[1], last.records[2]} \subseteq last.stored
    /\ Len(raw_signals) = Cardinality(last.stored)
    /\ Len(raw_signals) > 2

\* C21: a live run in which a commit write failed does not return a normal
\* result: whenever a live run has returned after the commit, every update
\* request of mark_as_processed had succeeded.
CommitFailurePropagates ==
    (pc = "done" /\ ~dry_run /\ last.op = "mark") => last.failing = {}

\* C23: every step leaves the rows already in the insights table in place
\* and as they were; the insert step of a live run adds the insights the
\* synthesizer returned, one row each, at the end, and no other step
\* changes the table.
InsightsAppendOnly ==
    [][/\ Len(insights') >= Len(insights)
       /\ SubSeq(insights', 1, Len(insights)) = insights
       /\ IF pc = "insert" /\ pc' = "done" /\ ~dry_run
          THEN /\ Len(insights') = Len(insights) + Len(new_insights)
               /\ \A k \in 1..Len(new_insights) :
                      insights'[Len(insights) + k] = new_insights[k]
          ELSE insights' = insights]_vars

\* C23 witness: two live runs have each inserted their insight, and the
\* table holds the same insight twice.
DuplicateInsightInserted ==
    /\ pc = "done"
    /\ ~dry_run
    /\ Len(insights) = 2
    /\ insights[1] = insights[2]
    /\ new_insights = <<insights[2]>>

\* C25: the position of a run moves only along fetch, extraction, scoring,
\* synthesis, update of the signals, insert of the insights (or out of the
\* run by a return or a raise); a classification request is made only in
\* scoring, over fetched signals; the generation request only once every
\* sub-batch has been scored; a run writes raw_signals only in the update
\* step and insights only in the insert step, which follows the update.
StagesInOrder ==
    [][/\ pc' # pc =>
              <<pc, pc'>> \in {<<"idle", "fetch">>, <<"fetch", "extract">>,
                               <<"fetch", "done">>, <<"extract", "score">>,
                               <<"score", "synthesize">>, <<"score", "failed">>,
                               <<"synthesize", "mark">>, <<"synthesize", "done">>,
                               <<"mark", "insert">>, <<"insert", "done">>,
                               <<"insert", "failed">>, <<"done", "idle">>,
                               <<"failed", "idle">>}
       /\ (last' # last /\ last'.op = "fetch") => pc = "fetch"
       /\ (last' # last /\ last'.op = "classify") =>
              (pc = "score" /\ signals # EmptyList /\ last.op \in {"fetch", "classify"})
       /\ (last' # last /\ last'.op = "generate") =>
              (pc = "synthesize" /\ i >= Len(signals) /\ last.op = "classify")
       /\ (last' # last /\ last'.op = "mark") =>
              (pc = "mark" /\ last.op = "generate")
       /\ (pc # "idle" /\ raw_signals' # raw_signals) => pc = "mark"
       /\ insights' # insights => (pc = "insert" /\ last.op = "mark")]_vars

\* C25 witness: a live run over two signals, scored in two sub-batches, has
\* gone through every stage and inserted its insight.
LiveRunWentThroughEveryStage ==
    /\ pc = "done"
    /\ ~dry_run
    /\ Len(signals) = 2
    /\ sentiment_batch_size = 1
    /\ DOMAIN all_scores = Ids(signals)
    /\ last.op = "mark"
    /\ new_insights # EmptyList
    /\ insights # EmptyList

\* C28: when a live run has raised, none of the signals it fetched is
\* processed.
FailedRunCommittedNothing ==
    (pc = "failed" /\ ~dry_run) =>
        \A id \in Ids(signals) : raw_signals[id].processed = FALSE

\* C29: in the update step of a live run, every row mark_as_processed
\* writes gets the extracted_entities and the sentiment_score that were
\* attached to that signal's working copy and given to the synthesizer,
\* and when no update request failed every fetched signal is written so.
MarkWritesWhatSynthesizerSaw ==
    [][(pc = "mark" /\ last.op = "generate") =>
          \A id \in Ids(signals) :
              (raw_signals'[id] # raw_signals[id] \/ last'.returned) =>
                  /\ raw_signals'[id].processed
                  /\ raw_signals'[id].extracted_entities =
                         Some(last.given[id].extracted_entities)
                  /\ raw_signals'[id].sentiment_score =
                         Some(last.given[id].sentiment_score)]_vars

\* C29 witness: a signal the score map has no entry for has been committed
\* with the neutral score, next to one the classifier scored 1.5.
CommittedWithoutScoreEntry ==
    /\ pc = "insert"
    /\ last.op = "mark"
    /\ last.returned
    /\ \E id \in Ids(signals) :
           /\ id \notin DOMAIN all_scores
           /\ raw_signals[id].processed
           /\ raw_signals[id].sentiment_score = Some(Neutral)
    /\ \E id \in Ids(signals) :
           /\ id \in DOMAIN all_scores
           /\ raw_signals[id].sentiment_score = Some(15)

\* The longest ticker of the claim C24
TickerLetters == 5

\* C24 as stated: for every '$' of the text that is followed by one to
\* five upper-case letters, these letters are in 'tickers'.
EveryDollarRunIsTicker ==
    (pc = "score" /\ last.op = "text") =>
        \A p \in 1..Len(last.content) :
            (/\ last.content[p] = "$"
             /\ RunEnd(last.content, p + 1) - p \in 1..TickerLetters) =>
                SubSeq(last.content, p + 1, RunEnd(last.content, p + 1))
                    \in extracted_entities[1].tickers

\* C24, amended: for every '$' of the text that is followed by one to five
\* upper-case letters ending at a word boundary (the end of the text or a
\* character that is no letter), these letters are in 'tickers'; every
\* ticker returned is such a match of the pattern layer or the ticker of a
\* company name the lower-cased text contains, and every such company's
\* ticker is returned; 'keywords' is empty.
BoundedDollarRunIsTicker ==
    (pc = "score" /\ last.op = "text") =>
        LET c == last.content
            found == extracted_entities[1]
            Bounded(p, n) ==
                /\ c[p] = "$"
                /\ n \in 1..TickerLetters
                /\ p + n <= Len(c)
                /\ \A k \in (p + 1)..(p + n) : c[k] \in Upper
                /\ (p + n = Len(c) \/ c[p + n + 1] \notin WordChars)
        IN  /\ \A p \in 1..Len(c), n \in 1..TickerLetters :
                   Bounded(p, n) => SubSeq(c, p + 1, p + n) \in found.tickers
            /\ \A name \in DOMAIN asset_mapping :
                   Contains(ToLower(c), name) => asset_mapping[name] \in found.tickers
            /\ \A t \in found.tickers :
                   \/ \E p \in 1..Len(c) :
                          Bounded(p, Len(t)) /\ SubSeq(c, p + 1, p + Len(t)) = t
                   \/ \E name \in DOMAIN asset_mapping :
                          asset_mapping[name] = t /\ Contains(ToLower(c), name)
            /\ found.keywords = {}

\* C24 witness: a text gave one ticker by the pattern layer and another by
\* the dictionary layer.
BothLayersGaveTicker ==
    /\ pc = "score"
    /\ last.op = "text"
    /\ <<"N">> \in extract_regex_tickers(last.content)
    /\ extracted_entities[1].tickers = {<<"N">>, <<"N", "V", "T">>}

\* C26: when score_batch_sentiment has ended, it has issued exactly
\* ceil(n / b) classification requests, n the number of input signals and
\* b the batch size (a request was issued for every offset below i, and
\* one more when the call ended by raising).
RequestsAreCeilOfNOverB ==
    pc \in {"synthesize", "failed"} =>
        (i \div sentiment_batch_size) + (IF pc = "failed" THEN 1 ELSE 0)
            = (Len(signals) + sentiment_batch_size - 1) \div sentiment_batch_size

\* C27: with the answer of every sub-batch fixed, the map
\* score_batch_sentiment builds is the same whatever the order in which
\* the sub-batches are processed.
ScoreMapIgnoresOrder ==
    (pc = "synthesize" /\ last.op = "outcomes") => all_scores = The(once)

\* C30: with no new ingestion and no store failure, repeated live runs
\* drain the queue: from some run on every raw signal is processed, and
\* stays so.
QueueDrains ==
    <>[](\A id \in DOMAIN raw_signals : raw_signals[id].processed)

\* C22: nothing keeps a second run away from the signals a first run holds.
\* A signal a run has fetched stays unprocessed in the store until an
\* update request of some run writes it, and a fetch returns the unprocessed
\* signals whether or not another run holds them: all of them when its
\* limit allows.  Once both runs are done, a signal both had fetched has been
\* updated by both and each run's insight, which names it, is in the table.
RunsAreNotExcluded ==
    /\ \A p \in RunIds :
           \A k \in 1..Len(signals[p]) :
               (/\ pc[p] \in {"extract", "mark"}
                /\ k > i[p]
                /\ \A q \in RunIds \ {p} :
                       \A m \in 1..i[q] : signals[q][m] # signals[p][k]) =>
                   raw_signals[signals[p][k]].processed = FALSE
    /\ last.op = "fetch" =>
           /\ Ids(signals[last.run]) \subseteq last.unprocessed
           /\ Len(signals[last.run]) =
                  Min(batch_size[last.run], Cardinality(last.unprocessed))
    /\ (\A p \in RunIds : pc[p] = "done") =>
           \A id \in Ids(signals[1]) \cap Ids(signals[2]) :
               /\ raw_signals[id].processed
               /\ \A p \in RunIds :
                      /\ i[p] = Len(signals[p])
                      /\ \E k \in 1..Len(insights) :
                             /\ insights[k] = new_insights[p][1]
                             /\ id \in Ids(insights[k].signal_ids)

\* C22 witness: both runs fetched signal 1 (so the later fetch came before
\* the first update of it), scored it differently and are done: the signal
\* is processed, written by both, and the table holds two insights that
\* name it.
SignalCommittedByBothRuns ==
    /\ \A p \in RunIds : pc[p] = "done" /\ 1 \in Ids(signals[p])
    /\ raw_signals[1].processed
    /\ Len(insights) = 2
    /\ \A k \in 1..2 : 1 \in Ids(insights[k].signal_ids)
    /\ all_scores[1][1] # all_scores[2][1]

===========================================================================
